---- MODULE Spec2Model ----
(***************************************************************************)
(* Model of the finca social-feed backend (src/finca): posts, reposts,     *)
(* star / save toggles, idempotent WhatsApp shares and comments over a     *)
(* relational store.                                                       *)
(*                                                                         *)
(* Four specifications are given.                                          *)
(*   Spec      one request at a time: every handler of views.py runs to    *)
(*             completion as one action (the sequential contract).         *)
(*   SpecConc  several requests in flight: every handler is split at its   *)
(*             database statements, which interleave freely.  The store is *)
(*             in autocommit mode (Django's default): each statement is    *)
(*             its own transaction and sees all committed rows.            *)
(*   SpecInteg the same interleaving, with the comment handler split at    *)
(*             its statements too, from a store that holds a commented     *)
(*             post.                                                       *)
(*   SpecCover concurrent uploads of cover slides, split at the statements *)
(*             of get_or_create and save.                                  *)
(*                                                                         *)
(* QuerySet.get_or_create, used by the handlers, is Django's:              *)
(*   try get() / except DoesNotExist: try create() / except               *)
(*   IntegrityError: try get() / except DoesNotExist: re-raise.            *)
(***************************************************************************)
EXTENDS Integers, Sequences, FiniteSets, TLC

\* ------------------------------------------------------------------ bounds
NumUsers == 2
MaxClock == 3
NumWorkers == 3

Users == 1..NumUsers
Workers == 1..NumWorkers

\* The three marker-row tables: PostStar, PostSave, PostWhatsAppShare.
Kinds == {"star", "save", "whatsapp"}
ToggleKinds == {"star", "save"}

VARIABLES
    posts,      \* Post rows: [id, author, text, repost_of, created_at]
    store,      \* store[k], k \in Kinds: rows [id, post, user, created_at]
    comments,   \* Comment rows: [id, post, user, parent, text, created_at]
    clock,      \* next primary key, also the value of auto_now_add
    pc,         \* SpecConc: pc[w], the statement worker w runs next
    req,        \* SpecConc: req[w], the request worker w handles
    loc,        \* SpecConc: loc[w], the handler's local variables
    resp,       \* SpecConc: resp[w], the response worker w returned
    slides      \* CoverSlide rows: [id, user, index, caption]

dbvars == <<posts, store, comments, clock>>
concvars == <<pc, req, loc, resp>>
vars == <<posts, store, comments, clock, pc, req, loc, resp, slides>>

stars == store["star"]
saves == store["save"]
whatsapp_shares == store["whatsapp"]

\* ------------------------------------------------------------ request data
\* A text field of a request body: absent, or a string (a sequence of
\* characters).
Whitespace == {" "}
NoText == [given |-> FALSE, val |-> <<>>]
TextInputs ==
    {NoText} \cup {[given |-> TRUE, val |-> s] :
                     s \in {<<" ">>, <<" ", "a">>, <<"b", " ">>}}

\* request.data.get("text") or ""
TextOrEmpty(t) == IF t.given THEN t.val ELSE <<>>

RECURSIVE LStrip(_)
LStrip(s) ==
    IF s # <<>> /\ Head(s) \in Whitespace THEN LStrip(Tail(s)) ELSE s

RECURSIVE RStrip(_)
RStrip(s) ==
    IF s # <<>> /\ s[Len(s)] \in Whitespace
    THEN RStrip(SubSeq(s, 1, Len(s) - 1))
    ELSE s

\* A faulty variant of Strip: the text is taken as submitted.
StripNone(s) == s

\* str.strip()
Strip(s) == RStrip(LStrip(s))

\* ------------------------------------------------------------------ tables
NoPost == 0

\* The parent of a comment that is no reply.
NoComment == 0

PostIdsOf(ps) == {p.id : p \in ps}
PostIds == PostIdsOf(posts)

\* The pk values a request may carry: every stored post, and one that is not.
PkInputs == PostIds \cup {NoPost}

PostRow(id, author, text, orig) ==
    [id |-> id, author |-> author, text |-> text, repost_of |-> orig,
     created_at |-> id]

MarkRow(id, p, u) == [id |-> id, post |-> p, user |-> u, created_at |-> id]

\* QuerySet.filter(post=p, user=u) on a marker table.
Rows(tbl, p, u) == {r \in tbl : r.post = p /\ r.user = u}

\* QuerySet.filter(post=p).count()
CountFor(tbl, p) == Cardinality({r \in tbl : r.post = p})

\* Post.objects.filter(author=u, repost_of=p): the reposts of p by u.
RepostsBy(ps, p, u) == {r \in ps : r.repost_of = p /\ r.author = u}

\* original.reposts.count()
RepostCount(ps, p) == Cardinality({r \in ps : r.repost_of = p})

\* A faulty variant of UniqueTogether: the tables declare no uniqueness constraint.
UniqueTogetherDropped(tbl, p, u) == TRUE

\* unique_together = ("post", "user") of PostStar, PostSave, PostWhatsAppShare.
UniqueTogether(tbl, p, u) == Rows(tbl, p, u) = {}

\* A faulty variant of ForeignKeyOk: every id passes for a stored post.
ForeignKeyAny(ps, p) == TRUE

\* ForeignKey(Post): the referenced post must be stored.
ForeignKeyOk(ps, p) == p \in PostIdsOf(ps)

\* A faulty variant of DeleteRow: the DELETE statement removes nothing.
DeleteRowKept(tbl, obj) == tbl

\* Model.delete() of a marker row: DELETE ... WHERE id = obj.id.
DeleteRow(tbl, obj) == {r \in tbl : r.id # obj.id}

\* ----------------------------------------------------------- cascade delete
\* A faulty variant of CascadePosts: the cascade also climbs from a repost
\* to the post it reposts.
RECURSIVE CascadeBothWays(_, _)
CascadeBothWays(ps, S) ==
    LET down == {r.id : r \in {x \in ps : x.repost_of \in S}}
        up   == {r.repost_of : r \in {x \in ps : x.id \in S}} \ {NoPost}
        more == (down \cup up) \ S
    IN  IF more = {} THEN S ELSE CascadeBothWays(ps, S \cup more)

\* on_delete=CASCADE of Post.repost_of: the posts removed with the posts S.
RECURSIVE CascadePosts(_, _)
CascadePosts(ps, S) ==
    LET more == {r.id : r \in {x \in ps : x.repost_of \in S}} \ S
    IN  IF more = {} THEN S ELSE CascadePosts(ps, S \cup more)

\* A faulty variant of CascadeComments: the replies are left in place.
CascadeNone(cs, S) == S

\* on_delete=CASCADE of Comment.parent: the comments removed with the
\* comments S.
RECURSIVE CascadeComments(_, _)
CascadeComments(cs, S) ==
    LET more == {c.id : c \in {x \in cs : x.parent \in S}} \ S
    IN  IF more = {} THEN S ELSE CascadeComments(cs, S \cup more)

\* A faulty variant of DeletePost: only the row of the post is removed.
DeletePostOnly(db, pk) ==
    [posts    |-> {p \in db.posts : p.id # pk},
     store    |-> db.store,
     comments |-> db.comments,
     clock    |-> db.clock]

\* instance.delete(), "collector.collect([self])": the SELECTs that gather,
\* before the transaction opens, the posts to remove (the post and,
\* transitively, the posts that repost it) and the comments to remove (those
\* of a removed post and their replies).
Collect(db, pk) ==
    LET gone == CascadePosts(db.posts, {pk})
    IN  [gone  |-> gone,
         cgone |-> CascadeComments(db.comments,
                       {c.id : c \in {x \in db.comments : x.post \in gone}})]

\* instance.delete(), "collector.delete()": the DELETEs of one transaction.
\* Stars, saves and shares go by the post they name; comments and posts go
\* by the primary keys collected.
DeleteCollected(db, col) ==
    [posts    |-> {p \in db.posts : p.id \notin col.gone},
     store    |-> [k \in Kinds |->
                     {r \in db.store[k] : r.post \notin col.gone}],
     comments |-> {c \in db.comments : c.id \notin col.cgone},
     clock    |-> db.clock]

\* A faulty variant of IntegrityOk: the store checks no foreign key.
IntegrityUnchecked(db) == TRUE

\* The foreign keys of the tables all name stored rows: what the store
\* checks when the transaction commits.
IntegrityOk(db) ==
    /\ \A p \in db.posts :
          p.repost_of = NoPost \/ ForeignKeyOk(db.posts, p.repost_of)
    /\ \A k \in Kinds : \A r \in db.store[k] : ForeignKeyOk(db.posts, r.post)
    /\ \A c \in db.comments :
          /\ ForeignKeyOk(db.posts, c.post)
          /\ c.parent = NoComment \/ \E x \in db.comments : x.id = c.parent

\* instance.delete() of post pk with no other statement in between: the
\* post, the posts that repost it (transitively) and every star, save,
\* share and comment of a removed post are removed.
DeletePost(db, pk) == DeleteCollected(db, Collect(db, pk))

\* The stored tables, and the next primary key, as one value.
Db == [posts |-> posts, store |-> store, comments |-> comments,
       clock |-> clock]

\* ------------------------------------------------- get_or_create, no race
\* QuerySet.get_or_create(post=p, user=u) on marker table tbl, run with no
\* other statement in between.  error is MultipleObjectsReturned from get()
\* or the IntegrityError that create() raises and the second get() cannot
\* resolve.
GetOrCreate(tbl, ps, p, u, id) ==
    LET found == Rows(tbl, p, u)
    IN  IF Cardinality(found) > 1
        THEN [obj |-> CHOOSE r \in found : TRUE, created |-> FALSE,
              tbl |-> tbl, error |-> TRUE]
        ELSE IF found # {}
        THEN [obj |-> CHOOSE r \in found : TRUE, created |-> FALSE,
              tbl |-> tbl, error |-> FALSE]
        ELSE IF UniqueTogether(tbl, p, u) /\ ForeignKeyOk(ps, p)
        THEN [obj |-> MarkRow(id, p, u), created |-> TRUE,
              tbl |-> tbl \cup {MarkRow(id, p, u)}, error |-> FALSE]
        ELSE [obj |-> MarkRow(id, p, u), created |-> FALSE,
              tbl |-> tbl, error |-> TRUE]

\* A faulty variant of GetOrCreateRepost: update_or_create, which writes the caption
\* into the repost it finds.
UpdateOrCreateRepost(ps, p, u, t, id) ==
    LET found == RepostsBy(ps, p, u)
    IN  IF found # {}
        THEN LET old == CHOOSE r \in found : TRUE
             IN  [obj |-> [old EXCEPT !.text = t], created |-> FALSE,
                  posts |-> (ps \ {old}) \cup {[old EXCEPT !.text = t]},
                  error |-> FALSE]
        ELSE [obj |-> PostRow(id, u, t, p), created |-> TRUE,
              posts |-> ps \cup {PostRow(id, u, t, p)}, error |-> FALSE]

\* Post.objects.get_or_create(author=u, repost_of=p, defaults={"text": t}),
\* run with no other statement in between.  Post declares no uniqueness
\* constraint: only the foreign key can make create() fail.
GetOrCreateRepost(ps, p, u, t, id) ==
    LET found == RepostsBy(ps, p, u)
    IN  IF Cardinality(found) > 1
        THEN [obj |-> CHOOSE r \in found : TRUE, created |-> FALSE,
              posts |-> ps, error |-> TRUE]
        ELSE IF found # {}
        THEN [obj |-> CHOOSE r \in found : TRUE, created |-> FALSE,
              posts |-> ps, error |-> FALSE]
        ELSE IF ForeignKeyOk(ps, p)
        THEN [obj |-> PostRow(id, u, t, p), created |-> TRUE,
              posts |-> ps \cup {PostRow(id, u, t, p)}, error |-> FALSE]
        ELSE [obj |-> PostRow(id, u, t, p), created |-> FALSE,
              posts |-> ps, error |-> TRUE]

\* A faulty variant of ToggleTable: the row found is not deleted.
ToggleTableKeep(g) == g.tbl

\* star / save, lines "if not created: obj.delete()": the table after the
\* toggle.
ToggleTable(g) == IF g.created THEN g.tbl ELSE DeleteRow(g.tbl, g.obj)

\* A faulty variant of WhatsappTable: the share is toggled like a star.
WhatsappTableToggle(g) ==
    IF g.created THEN g.tbl ELSE DeleteRow(g.tbl, g.obj)

\* whatsapp, "No se hace toggle; si ya existe no se duplica": the table
\* after the call.
WhatsappTable(g) == g.tbl

\* whatsapp: the "created" key of the response.
WhatsappCreated(created) == TRUE

\* ------------------------------------------------------------- responses
OK == 200
CREATED == 201
NO_CONTENT == 204
BAD_REQUEST == 400
NOT_FOUND == 404
SERVER_ERROR == 500
FORBIDDEN == 403

\* A response: the HTTP status, the has_<kind> flag, the "created" key, the
\* <kind>_count and the id of the row the call created or found.
Resp(status, has, created, count, rid) ==
    [status |-> status, has |-> has, created |-> created, count |-> count,
     rid |-> rid]

\* The response of a call that failed before its first write.
Refused(status) == Resp(status, FALSE, FALSE, 0, 0)

\* -------------------------------------------------- handlers, run alone
\* Each operator is one handler of views.py run from its first line to its
\* Response with no other request in between: the tables it leaves and the
\* response it returns.

\* PostViewSet.perform_create: a new post of the authenticated user.  The
\* serializer's CharField trims the submitted content.
CreateCall(db, u, t) ==
    [db   |-> [db EXCEPT
                 !.posts = @ \cup {PostRow(db.clock, u,
                                           Strip(TextOrEmpty(t)), NoPost)},
                 !.clock = @ + 1],
     resp |-> Resp(CREATED, FALSE, TRUE, 0, db.clock)]

\* A faulty variant of ToggleCall: a toggle on a repost is applied to the
\* post it reposts.
ToggleOriginal(db, k, u, pk) ==
    IF ~ForeignKeyOk(db.posts, pk)
    THEN [db |-> db, resp |-> Refused(NOT_FOUND)]
    ELSE LET post == CHOOSE p \in db.posts : p.id = pk
             orig == IF post.repost_of # NoPost THEN post.repost_of ELSE pk
             g    == GetOrCreate(db.store[k], db.posts, orig, u, db.clock)
             tbl  == ToggleTable(g)
         IN  IF g.error
             THEN [db |-> db, resp |-> Refused(SERVER_ERROR)]
             ELSE [db   |-> [db EXCEPT
                               !.store[k] = tbl,
                               !.clock = IF g.created THEN @ + 1 ELSE @],
                   resp |-> Resp(OK, g.created, g.created,
                                 CountFor(tbl, orig), g.obj.id)]

\* PostViewSet.star and PostViewSet.save: the same handler on PostStar
\* (k = "star") and on PostSave (k = "save").
ToggleCall(db, k, u, pk) ==
    IF ~ForeignKeyOk(db.posts, pk)
    THEN [db |-> db, resp |-> Refused(NOT_FOUND)]
    ELSE LET g   == GetOrCreate(db.store[k], db.posts, pk, u, db.clock)
             tbl == ToggleTable(g)
         IN  IF g.error
             THEN [db |-> db, resp |-> Refused(SERVER_ERROR)]
             ELSE [db   |-> [db EXCEPT
                               !.store[k] = tbl,
                               !.clock = IF g.created THEN @ + 1 ELSE @],
                   resp |-> Resp(OK, g.created, g.created,
                                 CountFor(tbl, pk), g.obj.id)]

\* PostViewSet.whatsapp
WhatsappCall(db, u, pk) ==
    IF ~ForeignKeyOk(db.posts, pk)
    THEN [db |-> db, resp |-> Refused(NOT_FOUND)]
    ELSE LET g == GetOrCreate(db.store["whatsapp"], db.posts, pk, u, db.clock)
         IN  IF g.error
             THEN [db |-> db, resp |-> Refused(SERVER_ERROR)]
             ELSE [db   |-> [db EXCEPT
                               !.store["whatsapp"] = WhatsappTable(g),
                               !.clock = IF g.created THEN @ + 1 ELSE @],
                   resp |-> Resp(OK, TRUE, WhatsappCreated(g.created),
                                 CountFor(WhatsappTable(g), pk), g.obj.id)]

\* PostViewSet.repost
RepostCall(db, u, pk, t) ==
    IF ~ForeignKeyOk(db.posts, pk)
    THEN [db |-> db, resp |-> Refused(NOT_FOUND)]
    ELSE LET caption == Strip(TextOrEmpty(t))
             g == GetOrCreateRepost(db.posts, pk, u, caption, db.clock)
         IN  IF g.error
             THEN [db |-> db, resp |-> Refused(SERVER_ERROR)]
             ELSE [db   |-> [db EXCEPT
                               !.posts = g.posts,
                               !.clock = IF g.created THEN @ + 1 ELSE @],
                   resp |-> Resp(IF g.created THEN CREATED ELSE OK, TRUE,
                                 g.created, RepostCount(g.posts, pk),
                                 g.obj.id)]

\* PostViewSet.get_queryset: the posts get_object() searches.
OwnPost(ps, u, pk) == \E p \in ps : p.id = pk /\ p.author = u

\* IsAuthor.has_object_permission
IsAuthor(ps, u, pk) == \A p \in ps : p.id = pk => p.author = u

\* A faulty variant of GetObject: every stored post is found and permitted.
GetObjectAny(db, u, pk) ==
    IF ForeignKeyOk(db.posts, pk) THEN OK ELSE NOT_FOUND

\* get_object() and check_object_permissions(): the post is searched in
\* get_queryset(), then IsAuthor is asked; the status of the refusal, or OK.
GetObject(db, u, pk) ==
    IF ~OwnPost(db.posts, u, pk) THEN NOT_FOUND
    ELSE IF ~IsAuthor(db.posts, u, pk) THEN FORBIDDEN
    ELSE OK

\* PostViewSet.destroy
DestroyCall(db, u, pk) ==
    IF GetObject(db, u, pk) = OK
    THEN [db |-> DeletePost(db, pk), resp |-> Refused(NO_CONTENT)]
    ELSE [db |-> db, resp |-> Refused(GetObject(db, u, pk))]

\* PostViewSet.update and partial_update: the serializer writes the content
\* submitted, trimmed, to the text of the post; no content, no change.
UpdateCall(db, u, pk, t) ==
    IF GetObject(db, u, pk) # OK
    THEN [db |-> db, resp |-> Refused(GetObject(db, u, pk))]
    ELSE [db   |-> [db EXCEPT !.posts =
                      {IF p.id = pk /\ t.given
                       THEN [p EXCEPT !.text = Strip(t.val)] ELSE p :
                         p \in @}],
          resp |-> Resp(OK, FALSE, FALSE, 0, pk)]

CommentRow(id, p, u, parent, text) ==
    [id |-> id, post |-> p, user |-> u, parent |-> parent, text |-> text,
     created_at |-> id]

\* A faulty variant of ParentInPost: the parent is looked up by its id alone.
ParentAnywhere(cs, parent, pk) == \E x \in cs : x.id = parent

\* get_object_or_404(Comment, pk=parent_id, post=post) finds the parent.
ParentInPost(cs, parent, pk) == \E x \in cs : x.id = parent /\ x.post = pk

\* PostViewSet.comments, POST: parent is the submitted parent id
\* (NoComment: none given).
CommentCall(db, u, pk, t, parent) ==
    LET text == Strip(TextOrEmpty(t))
        c    == CommentRow(db.clock, pk, u, parent, text)
    IN  IF ~ForeignKeyOk(db.posts, pk)
        THEN [db |-> db, resp |-> Refused(NOT_FOUND)]
        ELSE IF text = <<>>
        THEN [db |-> db, resp |-> Refused(BAD_REQUEST)]
        ELSE IF parent # NoComment /\ ~ParentInPost(db.comments, parent, pk)
        THEN [db |-> db, resp |-> Refused(NOT_FOUND)]
        ELSE [db   |-> [db EXCEPT !.comments = @ \cup {c}, !.clock = @ + 1],
              resp |-> Resp(CREATED, FALSE, TRUE,
                            CountFor(db.comments \cup {c}, pk), db.clock)]

\* A faulty variant of IsCommentOwnerOrPostAuthor: everyone is permitted.
IsAnyone(db, u, c) == TRUE

\* IsCommentOwnerOrPostAuthor.has_object_permission
IsCommentOwnerOrPostAuthor(db, u, c) ==
    \/ c.user = u
    \/ \E p \in db.posts : p.id = c.post /\ p.author = u

\* CommentViewSet.destroy
CommentDestroyCall(db, u, cid) ==
    IF ~\E c \in db.comments : c.id = cid
    THEN [db |-> db, resp |-> Refused(NOT_FOUND)]
    ELSE LET obj == CHOOSE c \in db.comments : c.id = cid
             left == {c \in db.comments :
                        c.id \notin CascadeComments(db.comments, {cid})}
         IN  IF ~IsCommentOwnerOrPostAuthor(db, u, obj)
             THEN [db |-> db, resp |-> Refused(FORBIDDEN)]
             ELSE [db   |-> [db EXCEPT !.comments = left],
                   resp |-> Resp(NO_CONTENT, FALSE, FALSE,
                                 CountFor(left, obj.post), cid)]

\* ------------------------------------------- Spec: one request at a time
\* The server handles a call: the tables become those the handler leaves.
Handle(call) ==
    /\ clock <= MaxClock
    /\ posts' = call.db.posts
    /\ store' = call.db.store
    /\ comments' = call.db.comments
    /\ clock' = call.db.clock
    /\ UNCHANGED <<concvars, slides>>

CreatePost(u, t) == Handle(CreateCall(Db, u, t))

Star(u, pk) == Handle(ToggleCall(Db, "star", u, pk))

Save(u, pk) == Handle(ToggleCall(Db, "save", u, pk))

Whatsapp(u, pk) == Handle(WhatsappCall(Db, u, pk))

Repost(u, pk, t) == Handle(RepostCall(Db, u, pk, t))

Destroy(u, pk) == Handle(DestroyCall(Db, u, pk))

Update(u, pk, t) == Handle(UpdateCall(Db, u, pk, t))

CommentAppend(u, pk, t, parent) == Handle(CommentCall(Db, u, pk, t, parent))

CommentIds == {c.id : c \in comments}

CommentDestroy(u, cid) == Handle(CommentDestroyCall(Db, u, cid))

\* The local variables of a handler in flight: obj.id and created, as
\* get_or_create returned them, and whether its create() raised
\* IntegrityError.
Local(id, created, conflict) ==
    [id |-> id, created |-> created, conflict |-> conflict,
     gone |-> {}, cgone |-> {}, idx |-> 0]

InitDb ==
    /\ posts = {}
    /\ store = [k \in Kinds |-> {}]
    /\ comments = {}
    /\ clock = 1
    /\ slides = {}

InitWorkers ==
    /\ pc = [w \in Workers |-> "idle"]
    /\ req = [w \in Workers |-> [op |-> "none", user |-> 0, pk |-> NoPost,
                                 text |-> NoText, absent |-> TRUE,
                                 parent |-> NoComment]]
    /\ loc = [w \in Workers |-> Local(0, FALSE, FALSE)]
    /\ resp = [w \in Workers |-> Refused(0)]

Init ==
    /\ InitDb
    /\ InitWorkers

Next ==
    \/ \E u \in Users, t \in TextInputs : CreatePost(u, t)
    \/ \E u \in Users, pk \in PkInputs : Star(u, pk)
    \/ \E u \in Users, pk \in PkInputs : Save(u, pk)
    \/ \E u \in Users, pk \in PkInputs : Whatsapp(u, pk)
    \/ \E u \in Users, pk \in PkInputs, t \in TextInputs : Repost(u, pk, t)
    \/ \E u \in Users, pk \in PkInputs : Destroy(u, pk)
    \/ \E u \in Users, pk \in PkInputs, t \in TextInputs : Update(u, pk, t)
    \/ \E u \in Users, pk \in PkInputs, t \in TextInputs,
          parent \in CommentIds \cup {NoComment} :
            CommentAppend(u, pk, t, parent)
    \/ \E u \in Users, cid \in CommentIds \cup {NoComment} :
            CommentDestroy(u, cid)

Spec == Init /\ [][Next]_vars

\* --------------------------------------- SpecConc: requests in flight
\* Worker w handles one request.  Its handler runs one database statement
\* per step; the statements of different workers interleave.

Ops == {"star", "save", "whatsapp", "repost", "destroy"}

\* A request; absent records whether the row it asks for was absent from its
\* table when the request arrived.
Request(op, u, pk, t, absent) ==
    [op |-> op, user |-> u, pk |-> pk, text |-> t, absent |-> absent,
     parent |-> NoComment]

Goto(w, label) == pc' = [pc EXCEPT ![w] = label]

Reply(w, r) ==
    /\ resp' = [resp EXCEPT ![w] = r]
    /\ Goto(w, "done")

\* get(**kwargs) of get_or_create: the rows matching the lookup (their ids).
MatchingIds(op, u, pk) ==
    IF op = "repost"
    THEN {r.id : r \in RepostsBy(posts, pk, u)}
    ELSE IF op \in Kinds
    THEN {r.id : r \in Rows(store[op], pk, u)}
    ELSE {}

Matching(w) == MatchingIds(req[w].op, req[w].user, req[w].pk)

\* A faulty variant of AfterGetOrCreate: the toggle never deletes.
AfterNeverDelete(op, created) == "count"

\* The statement that follows get_or_create once it returned (obj, created).
AfterGetOrCreate(op, created) ==
    IF op \in ToggleKinds /\ ~created THEN "delete" ELSE "count"

\* A request arrives.  Workers are interchangeable: they are taken in order.
Start(w, op, u, pk, t) ==
    /\ pc[w] = "idle"
    /\ \A v \in Workers : v < w => pc[v] # "idle"
    /\ req' = [req EXCEPT ![w] =
                 Request(op, u, pk, t, MatchingIds(op, u, pk) = {})]
    /\ Goto(w, "lookup")
    /\ UNCHANGED <<dbvars, loc, resp, slides>>

\* get_object_or_404(Post, pk=pk); for destroy, get_object() on
\* get_queryset().
Lookup(w) ==
    /\ pc[w] = "lookup"
    /\ IF req[w].op = "destroy"
       THEN IF OwnPost(posts, req[w].user, req[w].pk)
            THEN Goto(w, "collect") /\ UNCHANGED resp
            ELSE Reply(w, Refused(NOT_FOUND))
       ELSE IF ForeignKeyOk(posts, req[w].pk)
            THEN Goto(w, "get") /\ UNCHANGED resp
            ELSE Reply(w, Refused(NOT_FOUND))
    /\ UNCHANGED <<dbvars, req, loc, slides>>

\* get_or_create, "return self.get(**kwargs), False": DoesNotExist leads to
\* create(); MultipleObjectsReturned is not caught.
Get(w) ==
    /\ pc[w] = "get"
    /\ LET found == Matching(w)
       IN  IF found = {}
           THEN Goto(w, "create") /\ UNCHANGED <<loc, resp>>
           ELSE IF Cardinality(found) > 1
           THEN Reply(w, Refused(SERVER_ERROR)) /\ UNCHANGED loc
           ELSE /\ loc' = [loc EXCEPT ![w] =
                             Local(CHOOSE i \in found : TRUE, FALSE, FALSE)]
                /\ Goto(w, AfterGetOrCreate(req[w].op, FALSE))
                /\ UNCHANGED resp
    /\ UNCHANGED <<dbvars, req, slides>>

\* A faulty variant of InsertOk: the store checks no constraint.
InsertUnchecked(w) == TRUE

\* The INSERT of create(): the store rejects it (IntegrityError) when a
\* constraint of the table is violated.
InsertOk(w) ==
    IF req[w].op = "repost"
    THEN ForeignKeyOk(posts, req[w].pk)
    ELSE /\ UniqueTogether(store[req[w].op], req[w].pk, req[w].user)
         /\ ForeignKeyOk(posts, req[w].pk)

\* get_or_create, "return self.create(**params), True".
Create(w) ==
    /\ pc[w] = "create"
    /\ IF InsertOk(w)
       THEN /\ IF req[w].op = "repost"
               THEN /\ posts' = posts \cup
                          {PostRow(clock, req[w].user,
                                   Strip(TextOrEmpty(req[w].text)), req[w].pk)}
                    /\ UNCHANGED store
               ELSE /\ store' = [store EXCEPT ![req[w].op] =
                          @ \cup {MarkRow(clock, req[w].pk, req[w].user)}]
                    /\ UNCHANGED posts
            /\ clock' = clock + 1
            /\ loc' = [loc EXCEPT ![w] = Local(clock, TRUE, FALSE)]
            /\ Goto(w, AfterGetOrCreate(req[w].op, TRUE))
       ELSE /\ Goto(w, "reget")
            /\ loc' = [loc EXCEPT ![w] = Local(0, FALSE, TRUE)]
            /\ UNCHANGED <<posts, store, clock>>
    /\ UNCHANGED <<comments, req, resp, slides>>

\* get_or_create, "except IntegrityError: try: return self.get(**kwargs),
\* False / except DoesNotExist: pass / raise".
Reget(w) ==
    /\ pc[w] = "reget"
    /\ LET found == Matching(w)
       IN  IF Cardinality(found) = 1
           THEN /\ loc' = [loc EXCEPT ![w] =
                             Local(CHOOSE i \in found : TRUE, FALSE, TRUE)]
                /\ Goto(w, AfterGetOrCreate(req[w].op, FALSE))
                /\ UNCHANGED resp
           ELSE Reply(w, Refused(SERVER_ERROR)) /\ UNCHANGED loc
    /\ UNCHANGED <<dbvars, req, slides>>

\* star / save, "if not created: obj.delete()".
Delete(w) ==
    /\ pc[w] = "delete"
    /\ store' = [store EXCEPT ![req[w].op] = DeleteRow(@, loc[w])]
    /\ Goto(w, "count")
    /\ UNCHANGED <<posts, comments, clock, req, loc, resp, slides>>

\* The count query of the Response, and the Response.
Count(w) ==
    /\ pc[w] = "count"
    /\ Reply(w,
         IF req[w].op = "repost"
         THEN Resp(IF loc[w].created THEN CREATED ELSE OK, TRUE,
                   loc[w].created, RepostCount(posts, req[w].pk), loc[w].id)
         ELSE IF req[w].op = "whatsapp"
         THEN Resp(OK, TRUE, WhatsappCreated(loc[w].created),
                   CountFor(whatsapp_shares, req[w].pk), loc[w].id)
         ELSE Resp(OK, loc[w].created, loc[w].created,
                   CountFor(store[req[w].op], req[w].pk), loc[w].id))
    /\ UNCHANGED <<dbvars, req, loc, slides>>

\* destroy, "instance.delete()": the collector gathers the rows to remove.
Collecting(w) ==
    /\ pc[w] = "collect"
    /\ LET col == Collect(Db, req[w].pk)
       IN  loc' = [loc EXCEPT ![w].gone = col.gone, ![w].cgone = col.cgone]
    /\ Goto(w, "cascade")
    /\ UNCHANGED <<dbvars, req, resp, slides>>

\* destroy, "instance.delete()": the collector's DELETEs run in one
\* transaction; a row stored since the collection that names a removed row
\* makes the transaction fail (IntegrityError), and nothing is removed.
Cascade(w) ==
    /\ pc[w] = "cascade"
    /\ LET d == DeleteCollected(Db, loc[w])
       IN  IF IntegrityOk(d)
           THEN /\ posts' = d.posts
                /\ store' = d.store
                /\ comments' = d.comments
                /\ Reply(w, Refused(NO_CONTENT))
           ELSE /\ UNCHANGED <<posts, store, comments>>
                /\ Reply(w, Refused(SERVER_ERROR))
    /\ UNCHANGED <<clock, req, loc, slides>>

\* The store when the concurrent requests arrive: user 1 has published one
\* post.
InitConc ==
    /\ posts = {PostRow(1, 1, <<>>, NoPost)}
    /\ store = [k \in Kinds |-> {}]
    /\ comments = {}
    /\ clock = 2
    /\ slides = {}
    /\ InitWorkers

ConcTexts == {NoText, [given |-> TRUE, val |-> <<" ", "a">>]}

NextConc ==
    \E w \in Workers :
        \/ \E op \in Ops, u \in Users, pk \in PkInputs :
              Start(w, op, u, pk, NoText)
        \/ \E u \in Users, pk \in PkInputs, t \in ConcTexts \ {NoText} :
              Start(w, "repost", u, pk, t)
        \/ Lookup(w)
        \/ Get(w)
        \/ Create(w)
        \/ Reget(w)
        \/ Delete(w)
        \/ Count(w)
        \/ Collecting(w)
        \/ Cascade(w)

SpecConc == InitConc /\ [][NextConc]_vars

\* ------------------------- SpecInteg: comments and deletions in flight
\* The requests of SpecConc together with comment appends, on a store that
\* holds a post and a comment of it.

\* A comment append arrives: POST comments with a text and a parent id.
CommentStart(w, u, pk, t, parent) ==
    /\ pc[w] = "idle"
    /\ \A v \in Workers : v < w => pc[v] # "idle"
    /\ req' = [req EXCEPT ![w] =
                 [Request("comment", u, pk, t, TRUE) EXCEPT !.parent = parent]]
    /\ Goto(w, "comment_lookup")
    /\ UNCHANGED <<dbvars, loc, resp, slides>>

\* comments, "post = get_object_or_404(Post, pk=pk)", then the check of the
\* text, which reads no table.
CommentLookup(w) ==
    /\ pc[w] = "comment_lookup"
    /\ IF ~ForeignKeyOk(posts, req[w].pk)
       THEN Reply(w, Refused(NOT_FOUND))
       ELSE IF Strip(TextOrEmpty(req[w].text)) = <<>>
       THEN Reply(w, Refused(BAD_REQUEST))
       ELSE IF req[w].parent # NoComment
       THEN Goto(w, "comment_parent") /\ UNCHANGED resp
       ELSE Goto(w, "comment_create") /\ UNCHANGED resp
    /\ UNCHANGED <<dbvars, req, loc, slides>>

\* comments, "parent = get_object_or_404(Comment, pk=parent_id, post=post)".
CommentParent(w) ==
    /\ pc[w] = "comment_parent"
    /\ IF ParentInPost(comments, req[w].parent, req[w].pk)
       THEN Goto(w, "comment_create") /\ UNCHANGED resp
       ELSE Reply(w, Refused(NOT_FOUND))
    /\ UNCHANGED <<dbvars, req, loc, slides>>

\* A faulty variant of CommentInsertOk: the store checks no foreign key.
CommentInsertUnchecked(w) == TRUE

\* The INSERT of Comment.objects.create: the store rejects it
\* (IntegrityError) when the post or the parent is no longer stored.
CommentInsertOk(w) ==
    /\ ForeignKeyOk(posts, req[w].pk)
    /\ req[w].parent = NoComment
         \/ \E x \in comments : x.id = req[w].parent

\* comments, "Comment.objects.create(...)"; nothing catches IntegrityError.
CommentCreate(w) ==
    /\ pc[w] = "comment_create"
    /\ IF CommentInsertOk(w)
       THEN /\ comments' = comments \cup
                  {CommentRow(clock, req[w].pk, req[w].user, req[w].parent,
                              Strip(TextOrEmpty(req[w].text)))}
            /\ clock' = clock + 1
            /\ loc' = [loc EXCEPT ![w] = Local(clock, TRUE, FALSE)]
            /\ Goto(w, "comment_count")
            /\ UNCHANGED resp
       ELSE /\ Reply(w, Refused(SERVER_ERROR))
            /\ UNCHANGED <<comments, clock, loc>>
    /\ UNCHANGED <<posts, store, req, slides>>

\* comments, the Response: "count": post.comments.count(), status 201.
CommentCount(w) ==
    /\ pc[w] = "comment_count"
    /\ Reply(w, Resp(CREATED, FALSE, TRUE, CountFor(comments, req[w].pk),
                     loc[w].id))
    /\ UNCHANGED <<dbvars, req, loc, slides>>

\* The store when the requests arrive: user 1 has published one post and
\* has written one comment on it.
InitInteg ==
    /\ posts = {PostRow(1, 1, <<>>, NoPost)}
    /\ store = [k \in Kinds |-> {}]
    /\ comments = {CommentRow(2, 1, 1, NoComment, <<"a">>)}
    /\ clock = 3
    /\ slides = {}
    /\ InitWorkers

NextInteg ==
    \E w \in Workers :
        \/ \E op \in Ops, u \in Users, pk \in PkInputs :
              Start(w, op, u, pk, NoText)
        \/ \E u \in Users, pk \in PkInputs,
              parent \in CommentIds \cup {NoComment} :
                CommentStart(w, u, pk, [given |-> TRUE, val |-> <<" ", "a">>],
                             parent)
        \/ Lookup(w)
        \/ Get(w)
        \/ Create(w)
        \/ Reget(w)
        \/ Delete(w)
        \/ Count(w)
        \/ Collecting(w)
        \/ Cascade(w)
        \/ CommentLookup(w)
        \/ CommentParent(w)
        \/ CommentCreate(w)
        \/ CommentCount(w)

SpecInteg == InitInteg /\ [][NextInteg]_vars

\* ------------------------------------- SpecCover: cover slides in flight
\* CoverSlideViewSet.create writes the three slots of the requesting user,
\* one after the other; worker w runs one database statement per step.

\* The number of slots: "for idx in range(3)".
SlideSlots == 3

SlideRow(id, u, i, caption) ==
    [id |-> id, user |-> u, index |-> i, caption |-> caption]

\* get(user=u, index=i) of get_or_create on CoverSlide: the ids found.
SlidesOf(sl, u, i) == {r.id : r \in {x \in sl : x.user = u /\ x.index = i}}

\* A faulty variant of SlideUnique: the table has no constraint.
SlideUniqueDropped(sl, u, i) == TRUE

\* unique_together (user, index) of CoverSlide accepts a new row.
SlideUnique(sl, u, i) == SlidesOf(sl, u, i) = {}

\* A cover write arrives, with a caption for all the slots.
SlideStart(w, u, t) ==
    /\ pc[w] = "idle"
    /\ \A v \in Workers : v < w => pc[v] # "idle"
    /\ req' = [req EXCEPT ![w] = Request("cover", u, NoPost, t, TRUE)]
    /\ Goto(w, "slide_get")
    /\ UNCHANGED <<dbvars, loc, resp, slides>>

\* get_or_create(user=request.user, index=idx), "self.get(**kwargs)".
SlideGet(w) ==
    /\ pc[w] = "slide_get"
    /\ LET found == SlidesOf(slides, req[w].user, loc[w].idx)
       IN  IF found = {}
           THEN Goto(w, "slide_create") /\ UNCHANGED <<loc, resp>>
           ELSE IF Cardinality(found) > 1
           THEN Reply(w, Refused(SERVER_ERROR)) /\ UNCHANGED loc
           ELSE /\ loc' = [loc EXCEPT ![w].id = CHOOSE i \in found : TRUE,
                                      ![w].created = FALSE]
                /\ Goto(w, "slide_save")
                /\ UNCHANGED resp
    /\ UNCHANGED <<dbvars, req, slides>>

\* get_or_create, "self.create(**params)": the INSERT, which the store
\* rejects when the slot of the user is taken.
SlideCreate(w) ==
    /\ pc[w] = "slide_create"
    /\ IF SlideUnique(slides, req[w].user, loc[w].idx)
       THEN /\ slides' = slides \cup
                  {SlideRow(clock, req[w].user, loc[w].idx, <<>>)}
            /\ clock' = clock + 1
            /\ loc' = [loc EXCEPT ![w].id = clock, ![w].created = TRUE]
            /\ Goto(w, "slide_save")
       ELSE /\ loc' = [loc EXCEPT ![w].conflict = TRUE]
            /\ Goto(w, "slide_reget")
            /\ UNCHANGED <<slides, clock>>
    /\ UNCHANGED <<posts, store, comments, req, resp>>

\* get_or_create, "except IntegrityError: return self.get(**kwargs), False".
SlideReget(w) ==
    /\ pc[w] = "slide_reget"
    /\ LET found == SlidesOf(slides, req[w].user, loc[w].idx)
       IN  IF Cardinality(found) = 1
           THEN /\ loc' = [loc EXCEPT ![w].id = CHOOSE i \in found : TRUE,
                                      ![w].created = FALSE]
                /\ Goto(w, "slide_save")
                /\ UNCHANGED resp
           ELSE Reply(w, Refused(SERVER_ERROR)) /\ UNCHANGED loc
    /\ UNCHANGED <<dbvars, req, slides>>

\* "obj.save()": the UPDATE of the row by its id, with the caption when one
\* was submitted; then the next slot, or after the last slot the response.
\* The serializer of the response names fields that CoverSlide does not
\* declare, so the response is a server error, the rows being written.
SlideSave(w) ==
    /\ pc[w] = "slide_save"
    /\ LET caption == Strip(TextOrEmpty(req[w].text))
       IN  slides' = {IF r.id = loc[w].id /\ caption # <<>>
                      THEN [r EXCEPT !.caption = caption] ELSE r :
                        r \in slides}
    /\ IF loc[w].idx + 1 < SlideSlots
       THEN /\ loc' = [loc EXCEPT ![w].idx = @ + 1]
            /\ Goto(w, "slide_get")
            /\ UNCHANGED resp
       ELSE Reply(w, Refused(SERVER_ERROR)) /\ UNCHANGED loc
    /\ UNCHANGED <<dbvars, req>>

\* The store when the cover writes arrive: no slide is stored.
InitCover ==
    /\ InitDb
    /\ InitWorkers

NextCover ==
    \E w \in Workers :
        \/ \E u \in Users, t \in ConcTexts \ {NoText} : SlideStart(w, u, t)
        \/ SlideGet(w)
        \/ SlideCreate(w)
        \/ SlideReget(w)
        \/ SlideSave(w)

SpecCover == InitCover /\ [][NextCover]_vars

\* ------------------------------------------------------------------ reads
\* The reverse relations of Post that the listings count.
Relations == {"stars", "comments", "whatsapp_shares", "reposts", "saves"}

\* The rows of db that relation rel holds for post p, as their number.
LiveCount(db, rel, p) ==
    IF rel = "stars" THEN CountFor(db.store["star"], p)
    ELSE IF rel = "saves" THEN CountFor(db.store["save"], p)
    ELSE IF rel = "whatsapp_shares" THEN CountFor(db.store["whatsapp"], p)
    ELSE IF rel = "comments" THEN CountFor(db.comments, p)
    ELSE RepostCount(db.posts, p)

\* The relations annotate() counts: feed, and get_queryset (own posts).
FeedAnnotated == Relations

OwnAnnotated == Relations \ {"stars"}

\* The rows the query yields for post p: the LEFT OUTER JOINs of the
\* annotated relations multiply; a relation with no row contributes one
\* row of NULLs.
RECURSIVE JoinRows(_, _, _)
JoinRows(db, p, joined) ==
    IF joined = {} THEN 1
    ELSE LET j == CHOOSE x \in joined : TRUE
             n == LiveCount(db, j, p)
         IN  (IF n = 0 THEN 1 ELSE n) * JoinRows(db, p, joined \ {j})

\* Count(rel), without distinct, in a query that joins the relations of
\* joined: the joined rows whose rel column is not NULL.
AnnotatedCount(db, p, rel, joined) ==
    IF LiveCount(db, rel, p) = 0 THEN 0 ELSE JoinRows(db, p, joined)

\* get_<rel>_count: "getattr(obj, '<rel>_count', None) or obj.<rel>.count()".
SerializedCount(db, p, rel, joined) ==
    IF rel \in joined /\ AnnotatedCount(db, p, rel, joined) # 0
    THEN AnnotatedCount(db, p, rel, joined)
    ELSE LiveCount(db, rel, p)

\* GET /posts/feed/: every post, with its counts.
FeedCounts(db) ==
    [p \in PostIdsOf(db.posts) |->
        [rel \in Relations |-> SerializedCount(db, p, rel, FeedAnnotated)]]

\* GET /posts/: the posts of user u, with their counts.
OwnCounts(db, u) ==
    [p \in {x.id : x \in {y \in db.posts : y.author = u}} |->
        [rel \in Relations |-> SerializedCount(db, p, rel, OwnAnnotated)]]

\* ------------------------------------------------------------ saved by me
\* A faulty variant of SavedGroups: the ordering joins every Save row of the
\* posts the viewer saved, not the viewer's rows alone.
SavedGroupsAnyRow(db, v) ==
    {[post |-> s.post, saved_at |-> s.created_at,
      created_at |-> (CHOOSE x \in db.posts : x.id = s.post).created_at] :
        s \in {r \in db.store["save"] :
                 Rows(db.store["save"], r.post, v) # {}}}

\* saved, "filter(saves__user=request.user) ... order_by('-saves__created_at',
\* '-created_at')": the query joins each post to the Save rows of the viewer
\* and groups by post and by the ordering column of that join; one group
\* per Save row of the viewer.
SavedGroups(db, v) ==
    {[post |-> s.post, saved_at |-> s.created_at,
      created_at |-> (CHOOSE x \in db.posts : x.id = s.post).created_at] :
        s \in {r \in db.store["save"] : r.user = v}}

\* order_by("-saves__created_at", "-created_at") of the groups G.
RECURSIVE OrderBySavedAt(_)
OrderBySavedAt(G) ==
    IF G = {} THEN <<>>
    ELSE LET first == CHOOSE x \in G : \A y \in G :
                        \/ x.saved_at > y.saved_at
                        \/ x.saved_at = y.saved_at
                              /\ x.created_at >= y.created_at
         IN  <<first>> \o OrderBySavedAt(G \ {first})

\* GET /posts/saved/: the ids of the posts listed for viewer v, in order.
SavedList(db, v) ==
    LET qs == OrderBySavedAt(SavedGroups(db, v))
    IN  [i \in 1..Len(qs) |-> qs[i].post]

\* The rows the saved query yields in the group of post p: the join of
\* saves is the one the filter constrained to the viewer's row, the other
\* relations multiply as in the feed.
RECURSIVE SavedJoinRows(_, _, _)
SavedJoinRows(db, p, joined) ==
    IF joined = {} THEN 1
    ELSE LET j == CHOOSE x \in joined : TRUE
             n == IF j = "saves" THEN 1 ELSE LiveCount(db, j, p)
         IN  (IF n = 0 THEN 1 ELSE n) * SavedJoinRows(db, p, joined \ {j})

\* The counts reported for post p of the saved list: Count(rel) over the
\* joined rows, then get_<rel>_count.
SavedCounts(db, p) ==
    [rel \in Relations |->
        LET annotated ==
              IF rel # "saves" /\ LiveCount(db, rel, p) = 0 THEN 0
              ELSE SavedJoinRows(db, p, Relations)
        IN  IF annotated # 0 THEN annotated ELSE LiveCount(db, rel, p)]

\* ------------------------------------------------------------ repost embed
\* abs_url of a file field that holds no file; the posts of the model carry
\* no image and no video.
NoMedia == "null"

\* get_repost_of of a post that reposts nothing: None.
NoEmbed == [id |-> NoPost]

\* A faulty variant of RepostOfEmbed: the original is embedded with its own
\* repost_of and its count of stars.
RepostOfNested(db, p) ==
    IF p.repost_of = NoPost THEN NoEmbed
    ELSE LET orig == CHOOSE x \in db.posts : x.id = p.repost_of
         IN  [id |-> orig.id, author |-> orig.author, content |-> orig.text,
              image |-> NoMedia, video |-> NoMedia,
              created_at |-> orig.created_at,
              repost_of |-> orig.repost_of,
              stars_count |-> CountFor(db.store["star"], orig.id)]

\* PostSerializer.get_repost_of: the fields of the original written into
\* the representation of post p.
RepostOfEmbed(db, p) ==
    IF p.repost_of = NoPost THEN NoEmbed
    ELSE LET orig == CHOOSE x \in db.posts : x.id = p.repost_of
         IN  [id |-> orig.id, author |-> orig.author, content |-> orig.text,
              image |-> NoMedia, video |-> NoMedia,
              created_at |-> orig.created_at]

\* ----------------------------------------------------------------- samples
\* The length of a sample: "[:3]".
SampleSize == 3

\* The relations of which the representation of a post carries a sample.
SampleRelations == {"stars", "reposts", "whatsapp_shares", "saves"}

\* obj.<rel>: the rows of relation rel on post p, each with the user that
\* _user_preview renders (the author, for a repost).
RelatedRows(db, rel, p) ==
    IF rel = "reposts"
    THEN {[id |-> r.id, user |-> r.author, created_at |-> r.created_at] :
            r \in {x \in db.posts : x.repost_of = p}}
    ELSE LET tbl == IF rel = "stars" THEN db.store["star"]
                    ELSE IF rel = "saves" THEN db.store["save"]
                    ELSE db.store["whatsapp"]
         IN  {[id |-> r.id, user |-> r.user, created_at |-> r.created_at] :
                r \in {x \in tbl : x.post = p}}

\* order_by("-created_at") of the rows S, as a list.
RECURSIVE OrderByCreatedAtDesc(_)
OrderByCreatedAtDesc(S) ==
    IF S = {} THEN <<>>
    ELSE LET first == CHOOSE x \in S :
                        \A y \in S : x.created_at >= y.created_at
         IN  <<first>> \o OrderByCreatedAtDesc(S \ {first})

\* get_<rel>_sample: the users of the first rows of obj.<rel>, most recent
\* first.
Sample(db, rel, p) ==
    LET qs == OrderByCreatedAtDesc(RelatedRows(db, rel, p))
        n  == IF Len(qs) < SampleSize THEN Len(qs) ELSE SampleSize
    IN  [i \in 1..n |-> qs[i].user]

\* ------------------------------------------------------------ comment tree
\* order_by("created_at") of the rows S, as a list.
RECURSIVE OrderByCreatedAt(_)
OrderByCreatedAt(S) ==
    IF S = {} THEN <<>>
    ELSE LET first == CHOOSE x \in S :
                        \A y \in S : x.created_at <= y.created_at
         IN  <<first>> \o OrderByCreatedAt(S \ {first})

\* A faulty variant of RepliesOf: no reply is found.
RepliesNone(cs, c) == {}

\* obj.replies: the comments whose parent is c.
RepliesOf(cs, c) == {x \in cs : x.parent = c.id}

\* CommentSerializer: the fields of comment c, with get_replies serializing
\* its replies in the same way.
RECURSIVE CommentSerializer(_, _)
CommentSerializer(cs, c) ==
    LET qs == OrderByCreatedAt(RepliesOf(cs, c))
    IN  [id |-> c.id, text |-> c.text, created_at |-> c.created_at,
         parent |-> c.parent, user |-> c.user,
         replies |-> [i \in 1..Len(qs) |-> CommentSerializer(cs, qs[i])]]

\* PostViewSet.comments, GET: the comments of post pk that have no parent,
\* serialized, and the number of comments of the post.
FetchTree(db, pk) ==
    IF ~ForeignKeyOk(db.posts, pk)
    THEN [status |-> NOT_FOUND, count |-> 0, results |-> <<>>]
    ELSE LET roots == OrderByCreatedAt(
                        {c \in db.comments :
                            c.post = pk /\ c.parent = NoComment})
         IN  [status  |-> OK,
              count   |-> CountFor(db.comments, pk),
              results |-> [i \in 1..Len(roots) |->
                             CommentSerializer(db.comments, roots[i])]]

\* ================================================================ claims
\* The (post, user) pairs of a marker table.
Pairs(tbl) == {<<r.post, r.user>> : r \in tbl}

\* C1: for Star and for Save, a toggle call by user U on an existing post P
\* flips the (P, U) row: with no row it creates one and reports has = true,
\* with a row it deletes it and reports has = false; the rows of other pairs
\* stay, and the count returned is the number of rows of that kind stored for
\* P right after the call.
C1_ToggleFlips ==
    \A k \in ToggleKinds, u \in Users, pk \in PostIds :
        LET r      == ToggleCall(Db, k, u, pk)
            before == Rows(store[k], pk, u)
            after  == Rows(r.db.store[k], pk, u)
        IN  /\ r.resp.status = OK
            /\ before = {} => Cardinality(after) = 1 /\ r.resp.has
            /\ before # {} => after = {} /\ ~r.resp.has
            /\ r.db.store[k] \ after = store[k] \ before
            /\ r.resp.count = CountFor(r.db.store[k], pk)
            /\ r.resp.count =
                 CountFor(store[k], pk) + (IF before = {} THEN 1 ELSE -1)

\* C1 witness: a post that carries a star and a save: toggles of both kinds
\* have created rows, and the next toggle of the same pair removes one.
C1_Witness ==
    \E p \in posts, u \in Users, v \in Users :
        /\ Rows(stars, p.id, u) # {}
        /\ Rows(saves, p.id, v) # {}

\* C2 as stated: two star toggles on (P, U) run one after the other leave the
\* Star store exactly as it was before the first call, and the count the
\* second call reports is the star count of P before the first call.
C2_Original ==
    \A u \in Users, pk \in PostIds :
        LET r1 == ToggleCall(Db, "star", u, pk)
            r2 == ToggleCall(r1.db, "star", u, pk)
        IN  /\ r2.db.store["star"] = stars
            /\ r2.resp.count = CountFor(stars, pk)

\* C2 as amended: two star toggles on (P, U) in sequence leave the same
\* (post, user) pairs starred and every row of another pair untouched, and
\* the second call reports the star count of P before the first call.  When
\* (P, U) was absent the store is exactly as before; when it was present its
\* row has been deleted and created anew, with a new id and a later
\* created_at.
C2_ToggleTwice ==
    \A u \in Users, pk \in PostIds :
        LET r1     == ToggleCall(Db, "star", u, pk)
            r2     == ToggleCall(r1.db, "star", u, pk)
            before == Rows(stars, pk, u)
            after  == Rows(r2.db.store["star"], pk, u)
        IN  /\ Pairs(r2.db.store["star"]) = Pairs(stars)
            /\ r2.db.store["star"] \ after = stars \ before
            /\ r2.resp.count = CountFor(stars, pk)
            /\ r2.resp.has = (before # {})
            /\ before = {} => r2.db.store["star"] = stars
            /\ before # {} =>
                 /\ Cardinality(after) = 1
                 /\ \A a \in after, b \in before :
                      a.id # b.id /\ a.created_at > b.created_at

\* C2 witness: a post starred by two users, so that toggling twice the older
\* star re-creates it as the newer one.
C2_Witness ==
    \E a \in stars, b \in stars :
        a.post = b.post /\ a.user # b.user /\ a.created_at < b.created_at

\* C3: when user U shares post P twice in sequence, the share count after the
\* second call equals the count after the first, the first call (made with no
\* share of U stored) reports created = true and the second reports
\* created = false.
C3_ShareTwice ==
    \A u \in Users, pk \in PostIds :
        LET r1 == WhatsappCall(Db, u, pk)
            r2 == WhatsappCall(r1.db, u, pk)
        IN  /\ r2.resp.count = r1.resp.count
            /\ Rows(whatsapp_shares, pk, u) = {} => r1.resp.created
            /\ ~r2.resp.created

\* C4: a Share row, once stored, is in the store after every later request;
\* only the deletion of its post removes it.
C4_ShareMonotonic ==
    [][\A r \in whatsapp_shares :
          r \in whatsapp_shares' \/ r.post \notin PostIdsOf(posts')]_vars

\* C4 witness: a share followed by a star, a save, a comment or a repost on
\* the same post, and by a second share call of the same user (which leaves
\* the clock where it was).
C4_Witness ==
    \E r \in whatsapp_shares :
        /\ r.post \in PostIds
        /\ \/ \E x \in stars \cup saves \cup comments :
                 x.post = r.post /\ x.id > r.id
           \/ \E x \in posts : x.repost_of = r.post /\ x.id > r.id

\* The text of the stored post id.
TextOf(ps, id) == (CHOOSE p \in ps : p.id = id).text

\* C5: when user U reposts original P twice in sequence, both calls return
\* the same repost id, the second call reports created = false and creates no
\* post, and the repost's text stays what it was after the first call (the
\* trimmed caption of the first call, when that call created the repost)
\* whatever caption the second call supplies.
C5_RepostTwice ==
    \A u \in Users, pk \in PostIds, t1 \in TextInputs, t2 \in TextInputs :
        LET r1 == RepostCall(Db, u, pk, t1)
            r2 == RepostCall(r1.db, u, pk, t2)
        IN  /\ r1.resp.status \in {OK, CREATED}
            /\ r2.resp.status = OK
            /\ r2.resp.rid = r1.resp.rid
            /\ ~r2.resp.created
            /\ r2.db = r1.db
            /\ r1.resp.rid \in PostIdsOf(r2.db.posts)
            /\ TextOf(r2.db.posts, r2.resp.rid) = TextOf(r1.db.posts, r1.resp.rid)
            /\ r1.resp.created =>
                 TextOf(r2.db.posts, r2.resp.rid) = Strip(TextOrEmpty(t1))
            /\ r1.resp.created <=> RepostsBy(posts, pk, u) = {}

\* C5 witness: a repost stored with a caption, while the calls it could be
\* repeated with carry other captions.
C5_Witness ==
    \E r \in posts :
        /\ r.repost_of \in PostIds
        /\ r.text # <<>>
        /\ \E t \in TextInputs : Strip(TextOrEmpty(t)) \notin {<<>>, r.text}

\* C6: at most one post exists with a given (author, repost_of) pair where
\* repost_of is set, also in the states reached by concurrent repost calls.
C6_OneRepostPerAuthor ==
    \A a \in posts, b \in posts :
        (a.repost_of # NoPost /\ a.repost_of = b.repost_of
           /\ a.author = b.author) => a = b

\* C7: under any interleaving of star, save and share requests, each of the
\* Star, Save and Share stores holds at most one row for a (post, user) pair.
C7_UniqueRows ==
    \A k \in Kinds : \A a \in store[k], b \in store[k] :
        (a.post = b.post /\ a.user = b.user) => a = b

\* C7 witness: the store rejected an insert: a worker's create() met the row
\* another worker had inserted after the first worker's get().
C7_Witness ==
    \E w \in Workers :
        /\ pc[w] = "reget"
        /\ req[w].op \in Kinds
        /\ Rows(store[req[w].op], req[w].pk, req[w].user) # {}

\* Workers v and w have completed calls op of the same user on the same post.
BothDone(v, w, op) ==
    /\ v # w
    /\ pc[v] = "done" /\ pc[w] = "done"
    /\ req[v].op = op /\ req[w].op = op
    /\ req[v].user = req[w].user
    /\ req[v].pk = req[w].pk

\* No worker other than v and w has a request of kind op for the pair of v.
NoThird(v, w, op) ==
    \A x \in Workers \ {v, w} :
        ~(req[x].op = op /\ req[x].user = req[v].user /\ req[x].pk = req[v].pk)

\* C8: two concurrent share calls by the same user on the same post, started
\* with no Share row for the pair, end under every interleaving with exactly
\* one Share row for the pair stored (the post being still stored), and both
\* return their normal response.
C8_ShareRace ==
    \A v \in Workers, w \in Workers :
        (BothDone(v, w, "whatsapp") /\ req[v].absent /\ req[w].absent
           /\ req[v].pk \in PostIds) =>
            /\ Cardinality(Rows(whatsapp_shares, req[v].pk, req[v].user)) = 1
            /\ resp[v].status = OK /\ resp[w].status = OK

\* C8 witness: both calls are done, and one of them met the uniqueness
\* conflict: its create() was rejected because of the other's row.
C8_Witness ==
    \E v \in Workers, w \in Workers :
        /\ BothDone(v, w, "whatsapp")
        /\ req[v].absent /\ req[w].absent
        /\ req[v].pk \in PostIds
        /\ loc[v].created /\ loc[w].conflict

\* Two toggle calls of kind k by the same user on the same post, both arrived
\* when no row for the pair was stored, are done, and no other request
\* toggled the pair.
ToggleRaceDone(v, w, k) ==
    /\ BothDone(v, w, k)
    /\ req[v].absent /\ req[w].absent
    /\ NoThird(v, w, k)
    /\ req[v].pk \in PostIds

\* C9 as stated: two concurrent toggle calls (star, or save) by the same user
\* on the same post, started when no row for the pair exists, end under every
\* interleaving with exactly one row for the pair stored.
C9_Original ==
    \A k \in ToggleKinds, v \in Workers, w \in Workers :
        ToggleRaceDone(v, w, k) =>
            Cardinality(Rows(store[k], req[v].pk, req[v].user)) = 1

\* C9 as amended: two concurrent toggle calls (star, or save) by the same
\* user on the same post, started when no row for the pair exists, end under
\* every interleaving with no row for the pair stored: one call creates the
\* row and reports has = true, the other finds that row (at its get(), or
\* after its create() was rejected) and deletes it, reporting has = false.
C9_ToggleRace ==
    \A k \in ToggleKinds, v \in Workers, w \in Workers :
        ToggleRaceDone(v, w, k) =>
            /\ Rows(store[k], req[v].pk, req[v].user) = {}
            /\ resp[v].status = OK /\ resp[w].status = OK
            /\ resp[v].has # resp[w].has

\* C9 witness: the race is done and one of the two calls met the uniqueness
\* conflict.
C9_Witness ==
    \E k \in ToggleKinds, v \in Workers, w \in Workers :
        ToggleRaceDone(v, w, k) /\ loc[w].conflict

\* C10: under any interleaving of concurrent star, save, share or repost
\* calls for the same (post, user) pair, no call ends in an error: a call on
\* a post that is still stored returns its normal response.
C10_NoErrorOutcome ==
    \A w \in Workers :
        (pc[w] = "done" /\ req[w].op \in Kinds \cup {"repost"}
           /\ req[w].pk \in PostIds) =>
            resp[w].status \in {OK, CREATED}

\* Two toggle calls of kind k by the same user on the same post, both arrived
\* when the row for the pair was stored, are done; the only other request for
\* the pair is the one that had created that row.
ToggleOffRaceDone(v, w, k) ==
    /\ BothDone(v, w, k)
    /\ ~req[v].absent /\ ~req[w].absent
    /\ req[v].pk \in PostIds
    /\ \E x \in Workers \ {v, w} :
          /\ req[x].op = k /\ req[x].user = req[v].user /\ req[x].pk = req[v].pk
          /\ pc[x] = "done" /\ loc[x].created
          /\ \A y \in Workers \ {v, w, x} :
                ~(req[y].op = k /\ req[y].user = req[v].user
                    /\ req[y].pk = req[v].pk)

\* C11 as stated: two concurrent toggle calls (star, or save) by the same
\* user on the same post, started when the row for the pair exists, end under
\* every interleaving with the row absent, and neither call ends in an error.
C11_Original ==
    \A k \in ToggleKinds, v \in Workers, w \in Workers :
        ToggleOffRaceDone(v, w, k) =>
            /\ Rows(store[k], req[v].pk, req[v].user) = {}
            /\ resp[v].status = OK /\ resp[w].status = OK

\* C11 as amended: two concurrent toggle calls (star, or save) by the same
\* user on the same post, started when the row for the pair exists, never
\* end in an error and leave at most one row for the pair.  When both calls
\* read the row before either deletes it, both delete (the second DELETE is a
\* no-op), both report has = false and the row is absent; when one call's
\* get() runs after the other's delete, it creates the row anew, reports
\* has = true, and the row is present.
C11_ToggleOffRace ==
    \A k \in ToggleKinds, v \in Workers, w \in Workers :
        ToggleOffRaceDone(v, w, k) =>
            /\ resp[v].status = OK /\ resp[w].status = OK
            /\ Cardinality(Rows(store[k], req[v].pk, req[v].user)) <= 1
            /\ ~(resp[v].has /\ resp[w].has)
            /\ (Rows(store[k], req[v].pk, req[v].user) = {})
                 <=> (~resp[v].has /\ ~resp[w].has)

\* C11 witness: both calls read the same row and both deleted it: the row is
\* absent and neither call created one.
C11_Witness ==
    \E k \in ToggleKinds, v \in Workers, w \in Workers :
        /\ ToggleOffRaceDone(v, w, k)
        /\ loc[v].id = loc[w].id /\ ~loc[v].created /\ ~loc[w].created
        /\ Rows(store[k], req[v].pk, req[v].user) = {}

\* The stores as the next call may leave them: one more star, save, share,
\* repost or comment call handled after db.
AfterOneCall(db) ==
    {ToggleCall(db, k, u, pk).db :
        k \in ToggleKinds, u \in Users, pk \in PostIdsOf(db.posts)}
    \cup {WhatsappCall(db, u, pk).db :
        u \in Users, pk \in PostIdsOf(db.posts)}
    \cup {RepostCall(db, u, pk, NoText).db :
        u \in Users, pk \in PostIdsOf(db.posts)}
    \cup UNION {{CommentCall(db, u, pk, t, parent).db :
                   parent \in {c.id : c \in db.comments} \cup {NoComment},
                   t \in TextInputs} :
                 u \in Users, pk \in PostIdsOf(db.posts)}

\* C12: for every post returned by the global feed or by the own-posts
\* collection, whatever stars, comments, shares, reposts and saves are stored
\* on it, each reported count equals the number of rows of that kind stored
\* for the post at read time; stated of every reachable store and of the
\* store one further call leaves.
C12_CountsLive ==
    \A db \in {Db} \cup AfterOneCall(Db) :
        \A p \in PostIdsOf(db.posts), rel \in Relations :
            /\ FeedCounts(db)[p][rel] = LiveCount(db, rel, p)
            /\ \A u \in Users :
                 p \in DOMAIN OwnCounts(db, u) =>
                    OwnCounts(db, u)[p][rel] = LiveCount(db, rel, p)

\* C13: deleting post P by its author removes P and every Star, Save and
\* Share row of P, every comment of P with all replies at any depth, and
\* every post whose repost_of is P: after the deletion none of these rows is
\* stored, and no stored comment names a parent that is gone.
C13_PostCascade ==
    \A db \in {Db} \cup AfterOneCall(Db) :
        \A p \in db.posts :
            LET r == DestroyCall(db, p.author, p.id)
            IN  /\ r.resp.status = NO_CONTENT
                /\ p.id \notin PostIdsOf(r.db.posts)
                /\ \A k \in Kinds : CountFor(r.db.store[k], p.id) = 0
                /\ CountFor(r.db.comments, p.id) = 0
                /\ RepostCount(r.db.posts, p.id) = 0
                /\ \A c \in r.db.comments :
                     c.parent # NoComment =>
                        \E x \in r.db.comments : x.id = c.parent

\* C13 witness: a stored post has a comment that has a reply, or a stored
\* post has a repost that carries a star, a save or a share.
C13_Witness ==
    \/ \E p \in posts, c \in comments, d \in comments :
          c.post = p.id /\ d.parent = c.id
    \/ \E p \in posts, q \in posts, k \in Kinds :
          q.repost_of = p.id /\ CountFor(store[k], q.id) > 0

\* The rows of db that name post p: its stars, saves, shares, comments and
\* reposts.
Dependents(db, p) ==
    [store    |-> [k \in Kinds |-> {r \in db.store[k] : r.post = p}],
     comments |-> {c \in db.comments : c.post = p},
     reposts  |-> {r \in db.posts : r.repost_of = p}]

NoDependents ==
    [store    |-> [k \in Kinds |-> {}], comments |-> {}, reposts |-> {}]

C15_Original ==
    \A u \in Users, pk \in PostIds, t \in TextInputs, c \in comments :
        c.post # pk =>
            LET r == CommentCall(Db, u, pk, t, c.id)
            IN  r.resp.status = NOT_FOUND /\ r.db = Db

\* C15 as amended: a comment append on post P that names as parent a comment
\* belonging to a different post leaves every store unchanged; it is
\* rejected with NotFound when its text is non-empty after trimming, and
\* with the validation error (400) when its text is empty after trimming,
\* the text being checked before the parent.
C15_ForeignParent ==
    \A u \in Users, pk \in PostIds, t \in TextInputs, c \in comments :
        c.post # pk =>
            LET r == CommentCall(Db, u, pk, t, c.id)
            IN  /\ r.db = Db
                /\ r.resp.status =
                     IF Strip(TextOrEmpty(t)) = <<>> THEN BAD_REQUEST
                     ELSE NOT_FOUND

\* C15 witness: two posts are stored and one of them has a comment, which an
\* append on the other post can name as parent.
C15_Witness ==
    \E p \in PostIds, c \in comments : c.post # p

\* Every reply among the comments cs names a parent stored in cs, on the same
\* post.
SamePostAsParent(cs) ==
    \A c \in cs :
        c.parent # NoComment =>
            \E x \in cs : x.id = c.parent /\ x.post = c.post

\* C16: in every reachable state, every comment that has a parent belongs to
\* the same post as its parent; stated of every reachable store and of the
\* store one further call leaves.
C16_SamePost ==
    \A db \in {Db} \cup AfterOneCall(Db) : SamePostAsParent(db.comments)

\* C16 witness: a stored comment has a reply, written by another user.
C16_Witness ==
    \E c \in comments, d \in comments :
        d.parent = c.id /\ d.user # c.user

\* The submitted text t is missing, empty or made of whitespace only.
IsBlank(t) ==
    ~t.given \/ \A i \in 1..Len(t.val) : t.val[i] \in Whitespace

\* The text s is not empty and neither starts nor ends with whitespace.
IsTrimmed(s) ==
    s # <<>> /\ s[1] \notin Whitespace /\ s[Len(s)] \notin Whitespace

\* The text s is the submitted text val with whitespace removed at its ends.
IsTrimOf(s, val) ==
    \E i \in 1..Len(val), j \in 1..Len(val) :
        /\ s = SubSeq(val, i, j)
        /\ \A n \in 1..Len(val) :
             (n < i \/ n > j) => val[n] \in Whitespace

\* C17: a comment append on a stored post whose text is empty or only
\* whitespace is rejected as a validation error (400) and changes no stored
\* row; an accepted comment is stored with its text trimmed and non-empty,
\* and so is every comment stored.
C17_TextRequired ==
    /\ \A c \in comments : IsTrimmed(c.text)
    /\ \A u \in Users, pk \in PostIds, t \in TextInputs,
          parent \in CommentIds \cup {NoComment} :
            LET r == CommentCall(Db, u, pk, t, parent)
            IN  /\ IsBlank(t) =>
                     r.resp.status = BAD_REQUEST /\ r.db = Db
                /\ r.resp.status = CREATED =>
                     \E c \in r.db.comments \ comments :
                        /\ r.db.comments = comments \cup {c}
                        /\ c.id = r.resp.rid
                        /\ IsTrimmed(c.text)
                        /\ IsTrimOf(c.text, t.val)
                /\ r.resp.status # CREATED => r.db = Db

\* C17 witness: a comment is stored whose text was submitted with whitespace
\* around it, on a post to which a blank text can be submitted.
C17_Witness ==
    \E c \in comments :
        c.post \in PostIds /\ c.text \in {<<"a">>, <<"b">>}

\* The ids of the comments of a serialized list, replies included.
RECURSIVE Flatten(_)
Flatten(list) ==
    IF list = <<>> THEN <<>>
    ELSE <<Head(list).id>> \o Flatten(Head(list).replies)
            \o Flatten(Tail(list))

\* Every comment of a serialized list has parent up and is older than the
\* next one of the list, and so on for its replies, which are under it.
RECURSIVE WellNested(_, _)
WellNested(list, up) ==
    \A i \in 1..Len(list) :
        /\ list[i].parent = up
        /\ i < Len(list) => list[i].created_at < list[i + 1].created_at
        /\ WellNested(list[i].replies, list[i].id)

\* C18: fetch_tree of post P returns every comment of P exactly once: the
\* comments without parent at the top level in ascending creation order, and
\* every reply, at any depth, nested under its own parent, each list of
\* replies in ascending creation order; stated of every reachable store and
\* of the store one further call leaves.
C18_FetchTree ==
    \A db \in {Db} \cup AfterOneCall(Db) :
        \A pk \in PostIdsOf(db.posts) :
            LET r    == FetchTree(db, pk)
                flat == Flatten(r.results)
                ofP  == {c.id : c \in {x \in db.comments : x.post = pk}}
            IN  /\ r.status = OK
                /\ r.count = Cardinality(ofP)
                /\ Len(flat) = Cardinality(ofP)
                /\ {flat[i] : i \in 1..Len(flat)} = ofP
                /\ WellNested(r.results, NoComment)

\* C18 witness: the tree of a stored post holds a comment with a reply.
C18_Witness ==
    \E pk \in PostIds :
        LET r == FetchTree(Db, pk)
        IN  Len(r.results) = 1 /\ Len(r.results[1].replies) = 1

\* User u wrote comment c, or wrote the post that c is a comment of.
MayDelete(u, c) ==
    c.user = u \/ \E p \in posts : p.id = c.post /\ p.author = u

\* C19: a comment delete is carried out only when the requesting user is the
\* comment's author or the author of the comment's post, and then the comment
\* is removed; a delete requested by any other user is refused (403) and
\* leaves the Comment store, and every other store, unchanged.
C19_DeletePermission ==
    \A u \in Users, c \in comments :
        LET r == CommentDestroyCall(Db, u, c.id)
        IN  IF MayDelete(u, c)
            THEN r.resp.status = NO_CONTENT /\ c \notin r.db.comments
            ELSE r.resp.status = FORBIDDEN /\ r.db = Db

\* C19 witness: a post has a comment of its author, which the other user may
\* not delete, and a comment of the other user, which both may delete.
C19_Witness ==
    \E p \in posts, c \in comments, d \in comments :
        /\ c.post = p.id /\ d.post = p.id
        /\ c.user = p.author /\ d.user # p.author
        /\ \E u \in Users : ~MayDelete(u, c)

\* Comment d is a reply to comment c, or to a reply to it, at any depth.
RECURSIVE IsDescendant(_, _, _)
IsDescendant(cs, d, c) ==
    /\ d.parent # NoComment
    /\ \/ d.parent = c.id
       \/ \E x \in cs : x.id = d.parent /\ IsDescendant(cs, x, c)

\* C20: deleting a comment removes that comment and all of its descendant
\* replies at every depth, whoever wrote them, and removes no other comment
\* and no other row; stated of every reachable store and of the store one
\* further call leaves, for a deletion by the comment's author.
C20_CommentCascade ==
    \A db \in {Db} \cup AfterOneCall(Db) :
        \A c \in db.comments :
            LET r == CommentDestroyCall(db, c.user, c.id)
            IN  /\ r.resp.status = NO_CONTENT
                /\ r.db.comments =
                     {d \in db.comments :
                        d # c /\ ~IsDescendant(db.comments, d, c)}
                /\ r.db.posts = db.posts /\ r.db.store = db.store

\* C20 witness: deleting a stored comment removes two comments, the second
\* being a reply written by another user.
C20_Witness ==
    \E c \in comments :
        LET r == CommentDestroyCall(Db, c.user, c.id)
        IN  /\ Cardinality(comments \ r.db.comments) = 2
            /\ \E d \in comments \ r.db.comments : d.user # c.user

\* C21: an update or delete of a post requested by a user who is not the
\* post's author changes nothing: the post, its fields and all its dependent
\* rows are the same after the call as before.
C21_NonAuthorNoChange ==
    \A u \in Users, p \in posts, t \in TextInputs :
        p.author # u =>
            /\ UpdateCall(Db, u, p.id, t).db = Db
            /\ DestroyCall(Db, u, p.id).db = Db

\* C21 witness: a post with a text and with dependent rows is stored, which
\* a user other than its author can ask to update or delete.
C21_Witness ==
    \E u \in Users, p \in posts :
        /\ p.author # u /\ p.text # <<>>
        /\ Dependents(Db, p.id) # NoDependents

\* C22: an update or delete of an existing post requested by an
\* authenticated user who is not its author is answered with the Forbidden
\* outcome, not with NotFound.
C22_Forbidden ==
    \A u \in Users, p \in posts, t \in TextInputs :
        p.author # u =>
            /\ UpdateCall(Db, u, p.id, t).resp.status = FORBIDDEN
            /\ DestroyCall(Db, u, p.id).resp.status = FORBIDDEN

\* The ids a request can name that are no stored post: the null id, ids of
\* other rows, ids of deleted posts and ids never given.
MissingPks == (0..clock) \ PostIds

\* C23: a star, save, share, repost or comment request that names a post
\* that does not exist is answered NotFound and creates, changes or deletes
\* no row in any store.
C23_MissingPost ==
    \A u \in Users, pk \in MissingPks :
        /\ \A k \in ToggleKinds :
              ToggleCall(Db, k, u, pk) = [db |-> Db, resp |-> Refused(NOT_FOUND)]
        /\ WhatsappCall(Db, u, pk) = [db |-> Db, resp |-> Refused(NOT_FOUND)]
        /\ \A t \in TextInputs :
              /\ RepostCall(Db, u, pk, t)
                    = [db |-> Db, resp |-> Refused(NOT_FOUND)]
              /\ \A parent \in CommentIds \cup {NoComment} :
                    CommentCall(Db, u, pk, t, parent)
                      = [db |-> Db, resp |-> Refused(NOT_FOUND)]

\* C23 witness: a post, a comment and a star, save or share are stored, and
\* an id that belongs to no stored row can be named.
C23_Witness ==
    /\ posts # {} /\ comments # {}
    /\ \E k \in Kinds : store[k] # {}
    /\ \E pk \in MissingPks : pk # NoPost /\ pk \notin CommentIds
          /\ \A k \in Kinds : \A r \in store[k] : r.id # pk

\* The stores as a star, save, share, repost or comment call on post pk may
\* leave them.
AfterCallOn(db, pk) ==
    {ToggleCall(db, k, u, pk).db : k \in ToggleKinds, u \in Users}
    \cup {WhatsappCall(db, u, pk).db : u \in Users}
    \cup {RepostCall(db, u, pk, t).db : u \in Users, t \in TextInputs}
    \cup UNION {{CommentCall(db, u, pk, t, parent).db :
                   parent \in {c.id : c \in db.comments} \cup {NoComment},
                   t \in TextInputs} : u \in Users}

\* Post p, its interaction rows and its reported counts are in db2 what they
\* are in db1.
SameInteractions(db1, db2, p) ==
    /\ {x \in db2.posts : x.id = p} = {x \in db1.posts : x.id = p}
    /\ Dependents(db2, p) = Dependents(db1, p)
    /\ FeedCounts(db2)[p] = FeedCounts(db1)[p]

\* C24: a repost is a first-class post with its own interaction history: a
\* star, save, share, comment or repost made on a repost R of original P
\* leaves every interaction row, count and flag of P unchanged, and an
\* interaction made on P leaves those of R unchanged.
C24_RepostIndependent ==
    \A r \in posts :
        r.repost_of # NoPost =>
            /\ \A db \in AfterCallOn(Db, r.id) :
                  SameInteractions(Db, db, r.repost_of)
            /\ \A db \in AfterCallOn(Db, r.repost_of) :
                  SameInteractions(Db, db, r.id)

\* C24 witness: a repost is stored that carries an interaction row of its
\* own while its original carries none of that kind.
C24_Witness ==
    \E r \in posts :
        /\ r.repost_of \in PostIds
        /\ \/ \E k \in Kinds :
                 CountFor(store[k], r.id) > 0
                   /\ CountFor(store[k], r.repost_of) = 0
           \/ CountFor(comments, r.id) > 0
                 /\ CountFor(comments, r.repost_of) = 0

\* The keys of the representation of a post that report an interaction
\* aggregate, and the key of its embed.
AggregateKeys ==
    {"reposts_count", "has_reposted", "repost_sample", "first_reposter",
     "stars_count", "has_starred", "stars_sample", "first_starrer",
     "comments_count", "whatsapp_count", "has_shared_whatsapp",
     "whatsapp_sample", "first_whatsapper", "saves_count", "has_saved",
     "saves_sample", "first_saver"}

\* C25: the assembled representation of a post that is a repost embeds
\* exactly one level of its original, its id, author, content and timestamp
\* (and its image and video): for a chain of reposts of any length the embed
\* contains no interaction aggregate of the original and no nested repost_of
\* of the original.
C25_OneLevelEmbed ==
    \A r \in posts :
        r.repost_of # NoPost =>
            LET e == RepostOfEmbed(Db, r)
            IN  /\ DOMAIN e = {"id", "author", "content", "image", "video",
                               "created_at"}
                /\ DOMAIN e \cap (AggregateKeys \cup {"repost_of"}) = {}
                /\ \E orig \in posts :
                      /\ orig.id = r.repost_of
                      /\ e.id = orig.id /\ e.author = orig.author
                      /\ e.content = orig.text
                      /\ e.created_at = orig.created_at

\* C25 witness: a chain of two reposts is stored, the original of the last
\* repost being itself a repost, with a text.
C25_Witness ==
    \E r \in posts, q \in posts :
        r.repost_of = q.id /\ q.repost_of \in PostIds /\ q.text # <<>>

\* C26: for each kind in star, repost, share and save and for every post, the
\* sample holds min(3, n) entries where n is the number of rows of that kind
\* on the post; they are the users of the most recent rows, pairwise
\* distinct, ordered most recent first, and the sample is empty when n = 0.
C26_Samples ==
    \A p \in PostIds, rel \in SampleRelations :
        LET s    == Sample(Db, rel, p)
            rows == RelatedRows(Db, rel, p)
            n    == Cardinality(rows)
        IN  /\ Len(s) = IF n < 3 THEN n ELSE 3
            /\ \A i \in 1..Len(s), j \in 1..Len(s) : i # j => s[i] # s[j]
            /\ \A i \in 1..Len(s) :
                  \E r \in rows :
                      /\ r.user = s[i]
                      /\ Cardinality({x \in rows :
                                        x.created_at > r.created_at}) = i - 1

\* The stores as up to two further save calls may leave them.
AfterSaveCall(db) ==
    {ToggleCall(db, "save", u, pk).db :
        u \in Users, pk \in PostIdsOf(db.posts)}

AfterTwoSaveCalls(db) ==
    {db} \cup AfterSaveCall(db) \cup UNION {AfterSaveCall(d) : d \in AfterSaveCall(db)}

\* The time at which viewer v saved post p.
SavedAt(db, p, v) ==
    (CHOOSE s \in db.store["save"] : s.post = p /\ s.user = v).created_at

\* C27: the saved-by-me collection of viewer V contains exactly the posts for
\* which a Save row (post, V) exists, each post once, ordered by the creation
\* time of V's Save row descending (and then by post creation time
\* descending); saves made by other users on the same posts change neither
\* membership nor order.  Stated of every reachable store and of the stores
\* that up to two further save calls leave.
C27_SavedByMe ==
    \A db \in AfterTwoSaveCalls(Db), v \in Users :
        LET l == SavedList(db, v)
            mine == {q \in PostIdsOf(db.posts) :
                        Rows(db.store["save"], q, v) # {}}
        IN  /\ {l[i] : i \in 1..Len(l)} = mine
            /\ Len(l) = Cardinality(mine)
            /\ \A i \in 1..Len(l), j \in 1..Len(l) :
                  i < j => SavedAt(db, l[i], v) > SavedAt(db, l[j], v)
            /\ \A u \in Users \ {v}, pk \in PostIdsOf(db.posts) :
                  SavedList(ToggleCall(db, "save", u, pk).db, v) = l

\* C27 witness: two posts are stored and a user has saved the older one;
\* once that user saves the other too, the later save comes first.
C27_Witness ==
    \E v \in Users, p \in PostIds, q \in PostIds :
        /\ p < q
        /\ SavedList(Db, v) = <<p>>
        /\ SavedList(ToggleCall(Db, "save", v, q).db, v) = <<q, p>>

\* C29: for every post returned by the saved-by-me collection, the reported
\* saves_count equals the number of Save rows stored on that post by all
\* users, not only by the viewer, and the other four counts equal their live
\* row counts.
C29_SavedCounts ==
    \A v \in Users :
        \A i \in 1..Len(SavedList(Db, v)) :
            \A rel \in Relations :
                SavedCounts(Db, SavedList(Db, v)[i])[rel]
                    = LiveCount(Db, rel, SavedList(Db, v)[i])

\* C28: in every reachable state, under any sequence or interleaving of
\* cover-slide writes, each user has at most 3 CoverSlide rows, every row's
\* index is 0, 1 or 2, and no two rows of a user share an index.
C28_CoverSlots ==
    /\ \A u \in Users : Cardinality({r \in slides : r.user = u}) <= 3
    /\ \A r \in slides : r.index \in {0, 1, 2}
    /\ \A r \in slides, s \in slides :
          (r.user = s.user /\ r.index = s.index) => r = s

\* C28 witness: a user has its three slides, and a write of that user met
\* the uniqueness conflict on a slot another write had just created.
C28_Witness ==
    \E w \in Workers :
        /\ pc[w] = "done" /\ loc[w].conflict
        /\ Cardinality({r \in slides : r.user = req[w].user}) = 3

\* C30: referential integrity holds in every reachable state, including when
\* a post deletion interleaves with star, save, share, repost or comment
\* requests on that post: every Star, Save, Share and Comment row refers to a
\* stored post, every repost's repost_of refers to a stored post, and every
\* comment's parent refers to a stored comment.
C30_Referential ==
    /\ \A k \in Kinds : \A r \in store[k] : r.post \in PostIds
    /\ \A c \in comments :
          /\ c.post \in PostIds
          /\ c.parent # NoComment => c.parent \in CommentIds
    /\ \A p \in posts : p.repost_of # NoPost => p.repost_of \in PostIds

\* C30 witness: a deletion of the post is done, and so is a comment append
\* on that post that found the post stored but whose insert was rejected
\* because the post, or the parent, had been deleted meanwhile.
C30_Witness ==
    \E v \in Workers, w \in Workers :
        /\ req[v].op = "destroy" /\ pc[v] = "done"
        /\ resp[v].status = NO_CONTENT
        /\ req[w].op = "comment" /\ pc[w] = "done"
        /\ req[w].pk = req[v].pk
        /\ resp[w].status = SERVER_ERROR

\* C31: the cascade of a post deletion runs only from an original to its
\* dependents.  Deleting a repost R of original P, by R's author, removes R,
\* R's own stars, saves, shares and comments and the reposts of R, and
\* leaves the row of P, every star, save, share and comment of P and every
\* other repost of P as they were; stated of every reachable store and of
\* the store one further call leaves.
C31_RepostDeleteFrame ==
    \A db \in {Db} \cup AfterOneCall(Db) :
        \A r \in db.posts :
            r.repost_of # NoPost =>
                LET P   == r.repost_of
                    res == DestroyCall(db, r.author, r.id)
                IN  /\ res.resp.status = NO_CONTENT
                    /\ r.id \notin PostIdsOf(res.db.posts)
                    /\ Dependents(res.db, r.id) = NoDependents
                    /\ {x \in res.db.posts : x.id = P}
                          = {x \in db.posts : x.id = P}
                    /\ Dependents(res.db, P).store = Dependents(db, P).store
                    /\ Dependents(res.db, P).comments
                          = Dependents(db, P).comments
                    /\ Dependents(res.db, P).reposts
                          = Dependents(db, P).reposts \ {r}

\* C31 witness: a repost is stored whose original carries a star, a save, a
\* share, a comment or another repost.
C31_Witness ==
    \E r \in posts :
        /\ r.repost_of \in PostIds
        /\ \/ \E k \in Kinds : CountFor(store[k], r.repost_of) > 0
           \/ CountFor(comments, r.repost_of) > 0
           \/ RepostCount(posts, r.repost_of) > 1
====
